---- MODULE Spec2Model ----
(***************************************************************************)
(* A model of mcp-sync: the Codex TOML adapter (toml_support.py), the      *)
(* direct source-to-target sync (direct_sync.py) and the backup store      *)
(* (backup.py).                                                            *)
(*                                                                         *)
(* A Python dict is a TLA+ function whose domain is the set of keys that   *)
(* are present, so that "key absent" and "key present" differ as they do   *)
(* in the code.  A Python list is a sequence.  None, where an integer is   *)
(* expected, is the integer NoneT.                                         *)
(***************************************************************************)
EXTENDS Integers, Sequences, FiniteSets, TLC

VARIABLES
    is_windows,      \* platform.system().lower() == "windows"
    \* ---- the Codex TOML adapter on one file ----
    codexFile,       \* content of the TOML file
    cfgIn,           \* the canonical config handed to the first write_config
    readCfg,         \* what the last read_config returned
    file1,           \* content of the file right after the first write_config
    tstage,          \* how far the write / read / write sequence has come
    \* ---- sync_by_path / sync_by_keyword on a source and a target file ----
    srcFile,         \* content of the file at source_path
    tgtFile,         \* content of the file at target_path
    srcFmt,          \* source_format
    tgtFmt,          \* target_format
    backups,         \* the backup root: timestamp |-> (relative path |-> content)
    clock,           \* the latest datetime.now() a backup has read, in microseconds
    pc,              \* where _sync_paths stands: "idle", "backup" or "write"
    calls,           \* how many calls (of the sync, or of the backup manager) were made
    dry_run,         \* the dry_run argument of the current (or last) call
    keywords,        \* its source and target keyword, <<>> for a call by path
    source_servers,  \* local of _sync_paths
    target_servers,  \* local of _sync_paths
    backup_path,     \* local of _sync_paths
    new_servers,     \* local of _sync_paths
    result,          \* what the last call returned
    backup_outcome,  \* what the backup of the current call did
    files_read,      \* history: the config files the current call has read
    tgtBefore,       \* history: tgtFile when the current call began
    backupsBefore,   \* history: backups when the current call began
    tgtPath,         \* target_path
    previous,        \* history: what the call before the current (or last) one returned
    \* ---- the BackupManager on the files of a user ----
    fs,              \* the files outside the backup root: path |-> content
    op,              \* the last operation, its arguments and what it returned
    snap,            \* history: the last backup that succeeded, until a cleanup removes it
    created,         \* history: the snapshots that exist, in the order they were created
    definitions,     \* the ClientDefinitions the matcher was built with
    raw_query,       \* the query of the caller
    wratio,          \* what fuzz.WRatio gives for the query and each probed keyword
    found            \* the last find_client or find_clients call and what it returned

tomlVars == <<codexFile, cfgIn, readCfg, file1, tstage>>

syncVars == <<srcFile, tgtFile, srcFmt, tgtFmt, backups, clock, pc, calls, dry_run,
              keywords, source_servers, target_servers, backup_path, new_servers, result,
              backup_outcome, files_read, tgtBefore, backupsBefore, tgtPath, previous>>

storeVars == <<fs, op, snap, created>>
fuzzyVars == <<definitions, raw_query, wratio, found>>

vars == <<is_windows, tomlVars, syncVars, storeVars, fuzzyVars>>

----------------------------------------------------------------------------
(* Bounds *)

MaxArgs == 3
MaxClock == 1
MaxCalls == 2
MaxOps == 4
MaxLimit == 2

----------------------------------------------------------------------------
(* Python values *)

NoneT == -1

EmptyDict == <<>>

\* dict.get(k, default)
Get(d, k, default) == IF k \in DOMAIN d THEN d[k] ELSE default

\* dict.get(k): None when the key is absent (integer-valued keys only)
GetOpt(d, k) == IF k \in DOMAIN d THEN d[k] ELSE NoneT

\* d restricted to the keys in K
Restrict(d, K) == [k \in K |-> d[k]]

\* dict(a); result.update(b)
Update(a, b) == [k \in DOMAIN a \cup DOMAIN b |-> IF k \in DOMAIN b THEN b[k] ELSE a[k]]

\* x in list
Contains(s, x) == \E i \in 1..Len(s) : s[i] = x

\* list[n:] with n counted from 0
From(s, n) == SubSeq(s, n + 1, Len(s))

\* str.lower() on the strings that occur as commands and arguments
lower(s) ==
    CASE s = "CMD.EXE"     -> "cmd.exe"
      [] s = "/K"          -> "/k"
      [] s = "CLAUDE"      -> "claude"
      [] s = " VSCode "    -> " vscode "
      [] s = "Claude Code" -> "claude code"
      [] s = "VS Code"     -> "vs code"
      [] OTHER             -> s

----------------------------------------------------------------------------
(* toml_support.py: CodexConfig *)

SystemVars == {"SystemRoot", "PROGRAMFILES", "SystemDrive"}

DefaultSystemRoot == "C:\\Windows"
DefaultProgramFiles == "C:\\Program Files"
DefaultTimeout == 60000

\* parse_command that knows only the lower-case /c switch
parse_command_c_only(server_config) ==
    LET command == Get(server_config, "command", "")
        args    == Get(server_config, "args", <<>>)
    IN  IF command # "" /\ lower(command) \in {"cmd", "cmd.exe"}
        THEN IF Len(args) >= 2
             THEN IF args[1] = "/c"
                  THEN [command |-> args[2], args |-> From(args, 2)]
                  ELSE [command |-> args[1], args |-> From(args, 1)]
             ELSE [command |-> "", args |-> args]
        ELSE [command |-> command, args |-> args]

\* the canonical command and args of a Codex entry (the cmd wrapper handling)
parse_command(server_config) ==
    LET command == Get(server_config, "command", "")
        args    == Get(server_config, "args", <<>>)
    IN  IF command # "" /\ lower(command) \in {"cmd", "cmd.exe"}
        THEN IF Len(args) >= 2
             THEN IF lower(args[1]) \in {"/c", "/k"}
                  THEN [command |-> args[2], args |-> From(args, 2)]
                  ELSE [command |-> args[1], args |-> From(args, 1)]
             ELSE [command |-> "", args |-> args]
        ELSE [command |-> command, args |-> args]

\* parse_env that leaves SystemDrive in place
parse_env_keep_drive(server_config) ==
    LET env == Get(server_config, "env", EmptyDict)
    IN  Restrict(env, DOMAIN env \ {"SystemRoot", "PROGRAMFILES"})

\* the canonical env of a Codex entry
parse_env(server_config) ==
    LET env == Get(server_config, "env", EmptyDict)
    IN  Restrict(env, DOMAIN env \ SystemVars)

\* parse_codex_server that leaves the env as the file has it
parse_codex_server_keep_env(server_config) ==
    LET ca      == parse_command(server_config)
        base    == [command |-> ca.command, args |-> ca.args,
                    env |-> Get(server_config, "env", EmptyDict)]
        timeout == GetOpt(server_config, "startup_timeout_ms")
        withT   == IF timeout # NoneT
                   THEN base @@ [timeout_ms |-> timeout]
                   ELSE base
    IN  IF Contains(ca.args, "--stdio")
        THEN withT @@ [type |-> "stdio"]
        ELSE withT

parse_codex_server(server_config) ==
    LET ca      == parse_command(server_config)
        base    == [command |-> ca.command, args |-> ca.args,
                    env |-> parse_env(server_config)]
        timeout == GetOpt(server_config, "startup_timeout_ms")
        withT   == IF timeout # NoneT
                   THEN base @@ [timeout_ms |-> timeout]
                   ELSE base
    IN  IF Contains(ca.args, "--stdio")
        THEN withT @@ [type |-> "stdio"]
        ELSE withT

\* ensure_y that puts the flag behind the args
ensure_y_append(command, args) ==
    IF command = "npx" /\ ~Contains(args, "-y") THEN args \o <<"-y">> ELSE args

\* "Ensure -y is present for npx"
ensure_y(command, args) ==
    IF command = "npx" /\ ~Contains(args, "-y") THEN <<"-y">> \o args ELSE args

\* windows_env that always writes the built-in defaults
windows_env_defaults(env) ==
    LET required == [SystemRoot   |-> DefaultSystemRoot,
                     PROGRAMFILES |-> DefaultProgramFiles]
    IN  [k \in DOMAIN required \cup DOMAIN env |->
            IF k \in DOMAIN required THEN required[k] ELSE env[k]]

\* the env table written on Windows
windows_env(env) ==
    LET required == [SystemRoot   |-> Get(env, "SystemRoot", DefaultSystemRoot),
                     PROGRAMFILES |-> Get(env, "PROGRAMFILES", DefaultProgramFiles)]
    IN  [k \in DOMAIN required \cup DOMAIN env |->
            IF k \in DOMAIN required THEN required[k] ELSE env[k]]

\* a or b, on optional integers
py_or(a, b) == IF a # NoneT /\ a # 0 THEN a ELSE b

format_timeout(server_config) ==
    LET timeout == py_or(GetOpt(server_config, "timeout_ms"),
                         GetOpt(server_config, "startup_timeout_ms"))
    IN  IF timeout # NoneT THEN timeout ELSE DefaultTimeout

\* format_codex_server whose direct form writes the args as they are
format_codex_server_plain(server_config, windows) ==
    LET command == Get(server_config, "command", "npx")
        args    == Get(server_config, "args", <<>>)
        env     == Get(server_config, "env", EmptyDict)
    IN  IF windows
        THEN [command |-> "cmd",
              args    |-> <<"/c", command>> \o ensure_y(command, args),
              env     |-> windows_env(env),
              startup_timeout_ms |-> format_timeout(server_config)]
        ELSE [command |-> command,
              args    |-> args,
              env     |-> env,
              startup_timeout_ms |-> format_timeout(server_config)]

format_codex_server(server_config, windows) ==
    LET command == Get(server_config, "command", "npx")
        args    == Get(server_config, "args", <<>>)
        env     == Get(server_config, "env", EmptyDict)
    IN  IF windows
        THEN [command |-> "cmd",
              args    |-> <<"/c", command>> \o ensure_y(command, args),
              env     |-> windows_env(env),
              startup_timeout_ms |-> format_timeout(server_config)]
        ELSE [command |-> command,
              args    |-> ensure_y(command, args),
              env     |-> env,
              startup_timeout_ms |-> format_timeout(server_config)]

(* A file is missing, or holds text that does not parse, or holds a        *)
(* document: the table of servers (mcp_servers in TOML, mcpServers in      *)
(* JSON) and whether it has other top-level sections.                      *)
Missing == [kind |-> "missing", servers |-> EmptyDict, extra |-> FALSE]
Malformed == [kind |-> "malformed", servers |-> EmptyDict, extra |-> FALSE]
Doc(servers, extra) == [kind |-> "doc", servers |-> servers, extra |-> extra]

\* bytes that the reader's text encoding cannot decode
Undecodable == [kind |-> "undecodable", servers |-> EmptyDict, extra |-> FALSE]

\* a JSON document that is not an object, such as [] or null
NonObject == [kind |-> "nonobject", servers |-> EmptyDict, extra |-> FALSE]

\* a JSON object whose mcpServers value is a non-empty list
BadServers == [kind |-> "badservers", servers |-> EmptyDict, extra |-> FALSE]

codex_read_config(file) ==
    IF file.kind # "doc"
    THEN EmptyDict
    ELSE [n \in DOMAIN file.servers |-> parse_codex_server(file.servers[n])]

\* codex_write_config that leaves the servers of the existing document in it
codex_write_config_keep_stale(file, config, preserve_existing, windows) ==
    LET keep  == preserve_existing /\ file.kind = "doc"
        fresh == [n \in DOMAIN config |-> format_codex_server(config[n], windows)]
    IN  Doc(IF keep THEN Update(file.servers, fresh) ELSE fresh,
            IF keep THEN file.extra ELSE FALSE)

\* the file content after a write_config that does not fail
codex_write_config(file, config, preserve_existing, windows) ==
    LET keep == preserve_existing /\ file.kind = "doc"
    IN  Doc([n \in DOMAIN config |-> format_codex_server(config[n], windows)],
            IF keep THEN file.extra ELSE FALSE)

\* write_config returns False before it writes: read_text of the existing file
\* raises inside the outer try
codex_write_fails(file, preserve_existing) ==
    preserve_existing /\ file.kind = "undecodable"

----------------------------------------------------------------------------
(* toml_support.py: TomlConfigManager *)

\* json.load raises a UnicodeDecodeError, which is neither an OSError nor a
\* JSONDecodeError; the Codex reader catches every Exception
read_raises(file, config_format) ==
    config_format # "toml" /\ file.kind = "undecodable"

\* write_config cannot but return False
write_fails(file, config_format, preserve_existing) ==
    config_format = "toml" /\ codex_write_fails(file, preserve_existing)

\* read_config(path, config_format).get("mcpServers", {})
read_config(file, config_format) ==
    IF config_format = "toml"
    THEN codex_read_config(file)
    ELSE IF file.kind # "doc" THEN EmptyDict ELSE file.servers

\* write_config whose JSON form keeps the other top-level keys of the file
write_config_keep_extra(file, servers, config_format, preserve_existing, windows) ==
    IF config_format = "toml"
    THEN codex_write_config(file, servers, preserve_existing, windows)
    ELSE Doc(servers, file.kind = "doc" /\ file.extra)

\* the file content after a write_config that does not fail
write_config(file, servers, config_format, preserve_existing, windows) ==
    IF config_format = "toml"
    THEN codex_write_config(file, servers, preserve_existing, windows)
    ELSE Doc(servers, FALSE)

\* path.exists()
exists(file) == file.kind # "missing"

----------------------------------------------------------------------------
(* backup.py: BackupManager *)

\* a path is the sequence of its parts
HomeDir == <<"home">>

\* "no backup produced": backup_file returned None
NoBackup == [id |-> NoneT, rel |-> <<>>]

\* the target_path of the sync
TargetPath == <<"home", "target.json">>

IsUnder(path, dir) == Len(path) > Len(dir) /\ SubSeq(path, 1, Len(dir)) = dir

\* file_path.relative_to(Path.home()), or the bare file name
relative_path(path) ==
    IF IsUnder(path, HomeDir) THEN From(path, Len(HomeDir)) ELSE <<path[Len(path)]>>

\* backup_file that copies nothing
backup_file_skip(store, timestamp, path, content) == store

\* mkdir of backup_root / timestamp / relative_path.parent and shutil.copy2
\* into it: a directory of that timestamp that exists already is used as it is
backup_file(store, timestamp, path, content) ==
    LET dir == IF timestamp \in DOMAIN store THEN store[timestamp] ELSE EmptyDict
    IN  [t \in DOMAIN store \cup {timestamp} |->
            IF t = timestamp
            THEN [r \in DOMAIN dir \cup {relative_path(path)} |->
                     IF r = relative_path(path) THEN content ELSE dir[r]]
            ELSE store[t]]

\* the mkdir was done and the copy failed
backup_dir_only(store, timestamp) ==
    [t \in DOMAIN store \cup {timestamp} |->
        IF t \in DOMAIN store THEN store[t] ELSE EmptyDict]

\* backup_reference that yields a path although the copy failed
backup_reference_always(outcome, timestamp, path) ==
    [id |-> timestamp, rel |-> relative_path(path)]

\* what backup_file returns: backup_path, or None from the except branch
backup_reference(outcome, timestamp, path) ==
    IF outcome = "copied"
    THEN [id |-> timestamp, rel |-> relative_path(path)]
    ELSE NoBackup

\* sorted(..., reverse=True) of a set of timestamps
sorted_reverse(S) ==
    CHOOSE seq \in [1..Cardinality(S) -> S] :
        \A i, j \in 1..Cardinality(S) : i < j => seq[i] > seq[j]

\* list_backups: the timestamp directories that hold a file, newest name first
list_backups(store) ==
    LET listed == {t \in DOMAIN store : DOMAIN store[t] # {}}
        order  == sorted_reverse(listed)
    IN  [i \in 1..Len(order) |-> [timestamp |-> order[i], files |-> DOMAIN store[order[i]]]]

\* list[k:] for any integer k
slice_from(seq, k) ==
    IF k >= 0
    THEN From(seq, k)
    ELSE From(seq, IF Len(seq) + k > 0 THEN Len(seq) + k ELSE 0)

\* cleanup_old_backups that removes the newest snapshots instead
cleanup_newest(store, keep_count) ==
    LET listing == list_backups(store)
        doomed  == IF Len(listing) <= keep_count
                   THEN {}
                   ELSE {listing[i].timestamp :
                            i \in {j \in 1..Len(listing) : j <= Len(listing) - keep_count}}
    IN  [store   |-> [t \in DOMAIN store \ doomed |-> store[t]],
         removed |-> Cardinality(doomed)]

\* cleanup_old_backups: the store afterwards and the count it returns
cleanup_old_backups(store, keep_count) ==
    LET listing == list_backups(store)
        tail    == slice_from(listing, keep_count)
        doomed  == IF Len(listing) <= keep_count
                   THEN {}
                   ELSE {tail[i].timestamp : i \in 1..Len(tail)}
    IN  [store   |-> [t \in DOMAIN store \ doomed |-> store[t]],
         removed |-> Cardinality(doomed)]

\* get_backup_info, without the sizes and dates
get_backup_info(store, timestamp) ==
    IF timestamp \notin DOMAIN store
    THEN [kind |-> "none"]
    ELSE [kind       |-> "info",
          timestamp  |-> timestamp,
          file_count |-> Cardinality(DOMAIN store[timestamp]),
          files      |-> DOMAIN store[timestamp]]

\* file_path = None: restore every file
NoFile == <<>>

\* shutil.copy2(source, path) after path.parent.mkdir(parents=True)
copy_to(files, path, content) ==
    [p \in DOMAIN files \cup {path} |-> IF p = path THEN content ELSE files[p]]

\* restore_backup that restores the whole snapshot when the named file is
\* not in it
restore_backup_fallback(store, files, timestamp, file_path, root) ==
    IF timestamp \notin DOMAIN store
    THEN [files |-> files, ret |-> [kind |-> "none"]]
    ELSE IF file_path # NoFile /\ file_path \in DOMAIN store[timestamp]
    THEN [files |-> copy_to(files, root \o file_path, store[timestamp][file_path]),
          ret   |-> [kind |-> "file", path |-> root \o file_path]]
    ELSE [files |-> [p \in DOMAIN files \cup {root \o r : r \in DOMAIN store[timestamp]} |->
                        IF \E r \in DOMAIN store[timestamp] : p = root \o r
                        THEN store[timestamp][
                                 CHOOSE r \in DOMAIN store[timestamp] : p = root \o r]
                        ELSE files[p]],
          ret   |-> [kind |-> "dir", id |-> timestamp]]

\* restore_backup that restores a file under its bare name
restore_backup_flat(store, files, timestamp, file_path, root) ==
    IF timestamp \notin DOMAIN store
    THEN [files |-> files, ret |-> [kind |-> "none"]]
    ELSE IF file_path # NoFile
    THEN IF file_path \notin DOMAIN store[timestamp]
         THEN [files |-> files, ret |-> [kind |-> "none"]]
         ELSE [files |-> copy_to(files, root \o <<file_path[Len(file_path)]>>,
                                 store[timestamp][file_path]),
               ret   |-> [kind |-> "file", path |-> root \o file_path]]
    ELSE [files |-> [p \in DOMAIN files \cup {root \o <<r[Len(r)]>> : r \in DOMAIN store[timestamp]} |->
                        IF \E r \in DOMAIN store[timestamp] : p = root \o <<r[Len(r)]>>
                        THEN store[timestamp][
                                 CHOOSE r \in DOMAIN store[timestamp] : p = root \o <<r[Len(r)]>>]
                        ELSE files[p]],
          ret   |-> [kind |-> "dir", id |-> timestamp]]

\* restore_backup: the files afterwards and what it returns (the restored
\* path, the backup directory after restoring every file, or None)
restore_backup(store, files, timestamp, file_path, root) ==
    IF timestamp \notin DOMAIN store
    THEN [files |-> files, ret |-> [kind |-> "none"]]
    ELSE IF file_path # NoFile
    THEN IF file_path \notin DOMAIN store[timestamp]
         THEN [files |-> files, ret |-> [kind |-> "none"]]
         ELSE [files |-> copy_to(files, root \o file_path, store[timestamp][file_path]),
               ret   |-> [kind |-> "file", path |-> root \o file_path]]
    ELSE [files |-> [p \in DOMAIN files \cup {root \o r : r \in DOMAIN store[timestamp]} |->
                        IF \E r \in DOMAIN store[timestamp] : p = root \o r
                        THEN store[timestamp][
                                 CHOOSE r \in DOMAIN store[timestamp] : p = root \o r]
                        ELSE files[p]],
          ret   |-> [kind |-> "dir", id |-> timestamp]]

----------------------------------------------------------------------------
(* direct_sync.py: DirectSyncEngine *)

NameOrder == <<"a", "b">>
Names == {NameOrder[i] : i \in 1..Len(NameOrder)}

\* sorted(names)
sorted(S) == SelectSeq(NameOrder, LAMBDA n : n \in S)

servers_to_add(source, target) == DOMAIN source \ DOMAIN target

\* servers_to_update that does not compare the entries
servers_to_update_all(source, target) ==
    {name \in DOMAIN source : name \in DOMAIN target}

servers_to_update(source, target) ==
    {name \in DOMAIN source : name \in DOMAIN target /\ source[name] # target[name]}

servers_to_remove(source, target) == DOMAIN target \ DOMAIN source

total_changes(source, target) ==
    Cardinality(servers_to_add(source, target))
    + Cardinality(servers_to_update(source, target))
    + Cardinality(servers_to_remove(source, target))

\* no_servers that lets an empty source through
no_servers_never(source) == FALSE

\* "if not source_servers"
no_servers(source) == DOMAIN source = {}

\* "if dry_run"
preview_only(dry) == dry

\* merge_servers in which the target's entry wins
merge_target_wins(source, target) == Update(source, target)

\* new_servers = dict(target_servers); new_servers.update(source_servers)
merge_servers(source, target) == Update(target, source)

\* source_data.get / target_data.get on a value that is not a dict
get_raises(file, config_format) ==
    config_format # "toml" /\ file.kind = "nonobject"

\* source_servers.keys() / target_servers.keys() on a value that is not a dict
keys_raises(file, config_format) ==
    config_format # "toml" /\ file.kind = "badservers"

NoResult == [kind |-> "none", error |-> "", add |-> <<>>, update |-> <<>>,
             remove |-> <<>>, total |-> 0, backup |-> NoBackup]

Failure(error) == [NoResult EXCEPT !.kind = "failure", !.error = error]

\* no result: an exception left the call
Raised == [NoResult EXCEPT !.kind = "raised"]

\* client ids and the keywords that resolve to them
NoClient == ""

resolve_client_by_keyword(query) ==
    CASE query = "src" -> "source-client"
      [] query = "tgt" -> "target-client"
      [] query = "nop" -> "pathless-client"
      [] OTHER         -> NoClient

\* _get_client_path: the client has a path for this platform
has_client_path(client_id) == client_id \in {"source-client", "target-client"}

\* keyword_error that resolves the target first
keyword_error_target_first(source_id, target_id) ==
    IF target_id = NoClient THEN "Unknown target keyword"
    ELSE IF source_id = NoClient THEN "Unknown source keyword"
    ELSE IF ~has_client_path(source_id) THEN "Could not determine path for source"
    ELSE IF ~has_client_path(target_id) THEN "Could not determine path for target"
    ELSE ""

\* the failure of sync_by_keyword before any path is looked at, "" when none
keyword_error(source_id, target_id) ==
    IF source_id = NoClient THEN "Unknown source keyword"
    ELSE IF target_id = NoClient THEN "Unknown target keyword"
    ELSE IF ~has_client_path(source_id) THEN "Could not determine path for source"
    ELSE IF ~has_client_path(target_id) THEN "Could not determine path for target"
    ELSE ""

Plan(kind, source, target, backup) ==
    [kind   |-> kind,
     error  |-> "",
     add    |-> sorted(servers_to_add(source, target)),
     update |-> sorted(servers_to_update(source, target)),
     remove |-> sorted(servers_to_remove(source, target)),
     total  |-> total_changes(source, target),
     backup |-> backup]

----------------------------------------------------------------------------
(* The inputs of the adapter *)

Commands == {"npx", "node", "cmd", "CMD.EXE"}
ArgAtoms == {"/c", "/K", "-y", "npx", "--stdio"}
EnvKeys == {"SystemRoot", "PROGRAMFILES", "SystemDrive", "API_KEY"}
UserValue == "user"
Timeouts == {NoneT, 0, 5000}

ArgLists == UNION {[1..n -> ArgAtoms] : n \in 0..MaxArgs}
Envs == {[k \in K |-> UserValue] : K \in SUBSET EnvKeys}

\* a canonical server entry
CanonEntry(c, a, e, t) ==
    LET base == [command |-> c, args |-> a, env |-> e]
    IN  IF t = NoneT THEN base ELSE base @@ [timeout_ms |-> t]

\* an entry of the mcp_servers table
CodexEntry(c, a, e, t) ==
    LET base == [command |-> c, args |-> a, env |-> e]
    IN  IF t = NoneT THEN base ELSE base @@ [startup_timeout_ms |-> t]

ServerName == "srv"
StaleName == "old"

StaleEntry == CodexEntry("node", <<>>, EmptyDict, NoneT)

\* what the file may hold before the first write
PreDocs == {Missing, Doc(StaleName :> StaleEntry, TRUE)}

----------------------------------------------------------------------------
(* The adapter on one file: either read the file as it is, or write a      *)
(* canonical config, read it back and write the read-back config again.    *)

\* the sync variables while only the adapter is exercised
\* the backup manager's variables while it is not exercised on its own
NoSnap == [id |-> NoneT, rel |-> <<>>, content |-> ""]

StoreParked ==
    /\ fs = EmptyDict
    /\ op = [name |-> "none"]
    /\ snap = NoSnap
    /\ created = <<>>

\* the matcher's variables while it is not exercised
FuzzyParked ==
    /\ definitions = <<>>
    /\ raw_query = ""
    /\ wratio = EmptyDict
    /\ found = [name |-> "none"]

SyncParked ==
    /\ srcFile = Missing
    /\ tgtFile = Missing
    /\ srcFmt = "json"
    /\ tgtFmt = "json"
    /\ backups = EmptyDict
    /\ clock = 0
    /\ pc = "parked"
    /\ calls = 0
    /\ dry_run = FALSE
    /\ keywords = <<>>
    /\ source_servers = EmptyDict
    /\ target_servers = EmptyDict
    /\ backup_path = NoBackup
    /\ new_servers = EmptyDict
    /\ result = NoResult
    /\ backup_outcome = "none"
    /\ files_read = {}
    /\ tgtBefore = Missing
    /\ backupsBefore = EmptyDict
    /\ tgtPath = TargetPath
    /\ previous = NoResult

InitToml ==
    /\ SyncParked
    /\ StoreParked
    /\ FuzzyParked
    /\ is_windows \in BOOLEAN
    /\ readCfg = EmptyDict
    /\ file1 = Missing
    /\ tstage = "start"
    /\ \E c \in Commands, a \in ArgLists, e \in Envs, t \in Timeouts :
          \/ /\ codexFile = Doc(ServerName :> CodexEntry(c, a, e, t), FALSE)
             /\ cfgIn = EmptyDict
          \/ /\ codexFile \in PreDocs
             /\ cfgIn = (ServerName :> CanonEntry(c, a, e, t))

ReadExisting ==
    /\ tstage = "start"
    /\ DOMAIN cfgIn = {}
    /\ readCfg' = codex_read_config(codexFile)
    /\ tstage' = "read"
    /\ UNCHANGED <<is_windows, fuzzyVars, storeVars, codexFile, cfgIn, file1, syncVars>>

WriteCanonical ==
    /\ tstage = "start"
    /\ DOMAIN cfgIn # {}
    /\ codexFile' = codex_write_config(codexFile, cfgIn, TRUE, is_windows)
    /\ file1' = codexFile'
    /\ tstage' = "written"
    /\ UNCHANGED <<is_windows, fuzzyVars, storeVars, cfgIn, readCfg, syncVars>>

ReadBack ==
    /\ tstage = "written"
    /\ readCfg' = codex_read_config(codexFile)
    /\ tstage' = "readback"
    /\ UNCHANGED <<is_windows, fuzzyVars, storeVars, codexFile, cfgIn, file1, syncVars>>

WriteAgain ==
    /\ tstage = "readback"
    /\ codexFile' = codex_write_config(codexFile, readCfg, TRUE, is_windows)
    /\ tstage' = "rewritten"
    /\ UNCHANGED <<is_windows, fuzzyVars, storeVars, cfgIn, readCfg, file1, syncVars>>

NextToml ==
    \/ ReadExisting
    \/ WriteCanonical
    \/ ReadBack
    \/ WriteAgain

SpecToml == InitToml /\ [][NextToml]_vars

----------------------------------------------------------------------------
(* The inputs of the sync *)

\* server entries as they stand in JSON configs
JsonEntries ==
    { [command |-> "npx", args |-> <<"pkg">>],
      [command |-> "npx", args |-> <<"-y", "pkg">>, env |-> [API_KEY |-> UserValue],
       timeout_ms |-> 5000] }

\* server entries as they stand in Codex TOML configs
TomlEntries ==
    { CodexEntry("npx", <<"-y", "pkg">>, [API_KEY |-> UserValue], 5000),
      CodexEntry("cmd", <<"/c", "npx", "pkg">>,
                 [SystemRoot |-> DefaultSystemRoot, PROGRAMFILES |-> DefaultProgramFiles],
                 NoneT) }

EntriesOf(fmt) == IF fmt = "toml" THEN TomlEntries ELSE JsonEntries

ServerMaps(fmt) == UNION {[K -> EntriesOf(fmt)] : K \in SUBSET Names}

\* the states of a file that only JSON files can be in
WrongShapes(fmt) == IF fmt = "toml" THEN {} ELSE {NonObject, BadServers}

SourceFiles(fmt) ==
    {Missing, Malformed, Undecodable} \cup WrongShapes(fmt)
        \cup {Doc(m, FALSE) : m \in ServerMaps(fmt)}

TargetFiles(fmt) ==
    {Missing, Malformed, Undecodable} \cup WrongShapes(fmt)
        \cup {Doc(m, x) : m \in ServerMaps(fmt), x \in BOOLEAN}

\* the keywords a sync is called with
SourceKeywords == {"src", "nop", "zzz"}
TargetKeywords == {"tgt", "nop", "zzz"}

\* the adapter variables while only the sync is exercised
TomlParked ==
    /\ codexFile = Missing
    /\ cfgIn = EmptyDict
    /\ readCfg = EmptyDict
    /\ file1 = Missing
    /\ tstage = "parked"

----------------------------------------------------------------------------
(* sync_by_path on one source and one target path, called again and again  *)

\* the state before the first call, for any target path
InitFiles ==
    /\ TomlParked
    /\ StoreParked
    /\ FuzzyParked
    /\ is_windows \in BOOLEAN
    /\ srcFmt \in {"json", "toml"}
    /\ tgtFmt \in {"json", "toml"}
    /\ srcFile \in SourceFiles(srcFmt)
    /\ tgtFile \in TargetFiles(tgtFmt)
    /\ backups = EmptyDict
    /\ clock = 0
    /\ pc = "idle"
    /\ calls = 0
    /\ dry_run = FALSE
    /\ keywords = <<>>
    /\ source_servers = EmptyDict
    /\ target_servers = EmptyDict
    /\ backup_path = NoBackup
    /\ new_servers = EmptyDict
    /\ result = NoResult
    /\ backup_outcome = "none"
    /\ files_read = {}
    /\ tgtBefore = tgtFile
    /\ backupsBefore = EmptyDict
    /\ previous = NoResult

Init ==
    /\ InitFiles
    /\ tgtPath = TargetPath

\* datetime.now() at a backup: the tick the last backup read, or the next one
Ticks(last) == {t \in {last, last + 1} : t <= MaxClock}

\* a call of the engine begins
Called(dry, kws) ==
    /\ pc = "idle"
    /\ calls < MaxCalls
    /\ calls' = calls + 1
    /\ dry_run' = dry
    /\ keywords' = kws
    /\ tgtBefore' = tgtFile
    /\ backupsBefore' = backups
    /\ backup_path' = NoBackup
    /\ backup_outcome' = "none"
    /\ new_servers' = EmptyDict
    /\ previous' = result
    /\ UNCHANGED <<is_windows, fuzzyVars, storeVars, tomlVars, srcFile, tgtFile, srcFmt, tgtFmt, backups, clock,
                   tgtPath>>

\* the call ends with res, having read the files in read
Returns(res, source, target, read) ==
    /\ result' = res
    /\ source_servers' = source
    /\ target_servers' = target
    /\ files_read' = read
    /\ pc' = "idle"

\* _sync_paths up to its dry-run return
SyncPaths(dry) ==
    IF read_raises(srcFile, srcFmt) \/ get_raises(srcFile, srcFmt)
    THEN Returns(Raised, EmptyDict, EmptyDict, {"source"})
    ELSE LET source == read_config(srcFile, srcFmt)
         IN  IF ~keys_raises(srcFile, srcFmt) /\ no_servers(source)
             THEN Returns(Failure("No MCP servers found in source"), source, EmptyDict,
                          {"source"})
             ELSE IF read_raises(tgtFile, tgtFmt) \/ get_raises(tgtFile, tgtFmt)
             THEN Returns(Raised, source, EmptyDict, {"source", "target"})
             ELSE LET target == read_config(tgtFile, tgtFmt)
                  IN  IF keys_raises(srcFile, srcFmt) \/ keys_raises(tgtFile, tgtFmt)
                      THEN Returns(Raised, source, target, {"source", "target"})
                      ELSE IF preview_only(dry)
                      THEN Returns(Plan("dry", source, target, NoBackup), source, target,
                                   {"source", "target"})
                      ELSE /\ result' = NoResult
                           /\ source_servers' = source
                           /\ target_servers' = target
                           /\ files_read' = {"source", "target"}
                           /\ pc' = "backup"

\* sync_by_path up to the dry-run return of _sync_paths
SyncCall(dry) ==
    /\ Called(dry, <<>>)
    /\ IF ~exists(srcFile)
       THEN Returns(Failure("Source configuration not found"), EmptyDict, EmptyDict, {})
       ELSE SyncPaths(dry)

\* sync_by_keyword up to the dry-run return of _sync_paths; the source client's
\* path is the source file and the target client's path is the target file
SyncByKeyword(source_keyword, target_keyword, dry) ==
    /\ Called(dry, <<source_keyword, target_keyword>>)
    /\ LET source_id == resolve_client_by_keyword(source_keyword)
           target_id == resolve_client_by_keyword(target_keyword)
           error     == keyword_error(source_id, target_id)
       IN  IF error # ""
           THEN Returns(Failure(error), EmptyDict, EmptyDict, {})
           ELSE IF ~exists(srcFile)
           THEN Returns(Failure("Source configuration not found"), EmptyDict, EmptyDict, {})
           ELSE SyncPaths(dry)

\* "Create backup of target": backup_before_sync when the target exists
SyncBackup ==
    /\ pc = "backup"
    /\ pc' = "write"
    /\ IF exists(tgtFile)
       THEN \E now \in Ticks(clock) :
               /\ clock' = now
               /\ \/ /\ backups' = backup_file(backups, now, tgtPath, tgtFile)
                     /\ backup_outcome' = "copied"
                  \/ /\ backups' \in {backups, backup_dir_only(backups, now)}
                     /\ backup_outcome' = "error"
               /\ backup_path' = backup_reference(backup_outcome', now, tgtPath)
       ELSE /\ backups' = backups
            /\ clock' = clock
            /\ backup_path' = NoBackup
            /\ backup_outcome' = "none"
    /\ UNCHANGED <<is_windows, fuzzyVars, storeVars, tomlVars, srcFile, tgtFile, srcFmt, tgtFmt, calls, dry_run,
                   keywords, source_servers, target_servers, new_servers, result, files_read,
                   tgtBefore, backupsBefore, tgtPath, previous>>

\* "Merge servers", "Write target config" and the return
SyncWrite ==
    /\ pc = "write"
    /\ pc' = "idle"
    /\ new_servers' = merge_servers(source_servers, target_servers)
    /\ \/ /\ ~write_fails(tgtFile, tgtFmt, TRUE)
          /\ tgtFile' = write_config(tgtFile, new_servers', tgtFmt, TRUE, is_windows)
          /\ result' = Plan("success", source_servers, target_servers, backup_path)
       \/ /\ tgtFile' \in {tgtFile, Malformed}
          /\ result' = Failure("Failed to write target configuration")
    /\ UNCHANGED <<is_windows, fuzzyVars, storeVars, tomlVars, srcFile, srcFmt, tgtFmt, backups, clock, calls,
                   dry_run, keywords, source_servers, target_servers, backup_path, backup_outcome,
                   files_read, tgtBefore, backupsBefore, tgtPath, previous>>

Next ==
    \/ \E dry \in BOOLEAN : SyncCall(dry)
    \/ SyncBackup
    \/ SyncWrite

Spec == Init /\ [][Next]_vars

----------------------------------------------------------------------------
(* sync_by_keyword and sync_by_path on the files of two JSON or TOML        *)
(* clients, the source client's file being a JSON file                      *)

InitKeyword ==
    /\ Init
    /\ ~is_windows
    /\ srcFmt = "json"

NextKeyword ==
    \/ \E sk \in SourceKeywords, tk \in TargetKeywords, dry \in BOOLEAN :
          SyncByKeyword(sk, tk, dry)
    \/ \E dry \in BOOLEAN : SyncCall(dry)
    \/ SyncBackup
    \/ SyncWrite

SpecKeyword == InitKeyword /\ [][NextKeyword]_vars

----------------------------------------------------------------------------
(* sync_by_path on a target under the home directory or outside it, and    *)
(* the restore of the snapshot a sync returned                             *)

\* a target_path that is not under Path.home()
OutsidePath == <<"tmp", "target.json">>

TargetPaths == {TargetPath, OutsidePath}

InitRecover ==
    /\ InitFiles
    /\ tgtPath \in TargetPaths
    /\ ~is_windows
    /\ srcFmt = "json"
    /\ tgtFmt = "json"

\* restore_backup(timestamp, file_path) with the default restore_root, for
\* the snapshot whose path the last sync returned: the whole snapshot, or
\* the file of that path
RestoreSnapshot(file_path) ==
    /\ pc = "idle"
    /\ result.kind = "success"
    /\ result.backup # NoBackup
    /\ file_path \in {NoFile, result.backup.rel}
    /\ LET done == restore_backup(backups, (tgtPath :> tgtFile) @@ fs, result.backup.id,
                                  file_path, HomeDir)
       IN  /\ tgtFile' = done.files[tgtPath]
           /\ fs' = Restrict(done.files, DOMAIN done.files \ {tgtPath})
           /\ op' = [name |-> "restore", id |-> result.backup.id, file |-> file_path,
                     root |-> HomeDir, ret |-> done.ret, call |-> calls]
    /\ UNCHANGED <<is_windows, fuzzyVars, tomlVars, snap, created, srcFile, srcFmt, tgtFmt,
                   backups, clock, pc, calls, dry_run, keywords, source_servers,
                   target_servers, backup_path, new_servers, result, backup_outcome,
                   files_read, tgtBefore, backupsBefore, tgtPath, previous>>

NextRecover ==
    \/ \E dry \in BOOLEAN : SyncCall(dry)
    \/ SyncBackup
    \/ SyncWrite
    \/ \E f \in {NoFile, relative_path(tgtPath)} : RestoreSnapshot(f)

SpecRecover == InitRecover /\ [][NextRecover]_vars

----------------------------------------------------------------------------
(* The BackupManager on one backup root: backups of two files of the user, *)
(* one under the home directory and one outside it, changes to these       *)
(* files, listings, restores and cleanups in any order                     *)

HomeCfg == <<"home", ".cursor", "mcp.json">>
TmpCfg == <<"tmp", "mcp.json">>
Originals == {HomeCfg, TmpCfg}

\* restore_root: the default, Path.home(), or a directory of the caller
RestoreRoots == {HomeDir, <<"restore">>}

Contents == {"c1", "c2"}

\* the timestamps and relative paths a caller may name
Stamps == 0..MaxClock

\* datetime.now().strftime("%Y%m%d_%H%M%S_%f"): the local wall-clock time,
\* which repeats a value within a tick and goes back when the local time is
\* set back (the end of daylight saving time, a clock correction)
LocalTimes == 0..MaxClock
RelPaths == {relative_path(p) : p \in Originals}

\* keep_count
KeepCounts == {-1, 0, 1, 2}

InitBackup ==
    /\ TomlParked
    /\ SyncParked
    /\ FuzzyParked
    /\ is_windows = FALSE
    /\ fs \in {[p \in P |-> "c1"] : P \in SUBSET Originals}
    /\ op = [name |-> "none"]
    /\ snap = NoSnap
    /\ created = <<>>

\* an operation begins
Operation ==
    /\ calls < MaxOps
    /\ calls' = calls + 1
    /\ backupsBefore' = backups
    /\ UNCHANGED <<is_windows, fuzzyVars, tomlVars, srcFile, tgtFile, srcFmt, tgtFmt, pc, dry_run,
                   keywords, source_servers, target_servers, backup_path, new_servers,
                   result, backup_outcome, files_read, tgtBefore, tgtPath, previous>>

\* backup_file(path)
Backup(path) ==
    /\ Operation
    /\ fs' = fs
    /\ IF path \notin DOMAIN fs
       THEN /\ op' = [name |-> "backup", path |-> path, ret |-> NoBackup]
            /\ UNCHANGED <<backups, clock, snap, created>>
       ELSE \E now \in LocalTimes :
               /\ clock' = now
               /\ \/ /\ backups' = backup_file(backups, now, path, fs[path])
                     /\ op' = [name |-> "backup", path |-> path,
                               ret |-> backup_reference("copied", now, path)]
                     /\ snap' = [id |-> now, rel |-> relative_path(path),
                                 content |-> fs[path]]
                     /\ created' = IF now \in DOMAIN backups /\ DOMAIN backups[now] # {}
                                   THEN created
                                   ELSE Append(created, now)
                  \/ /\ backups' \in {backups, backup_dir_only(backups, now)}
                     /\ op' = [name |-> "backup", path |-> path,
                               ret |-> backup_reference("error", now, path)]
                     /\ snap' = snap
                     /\ created' = created

\* the user changes a file
Modify(path, content) ==
    /\ Operation
    /\ path \in DOMAIN fs => fs[path] # content
    /\ fs' = copy_to(fs, path, content)
    /\ op' = [name |-> "modify", path |-> path]
    /\ UNCHANGED <<backups, clock, snap, created>>

\* the user deletes a file
Delete(path) ==
    /\ Operation
    /\ path \in DOMAIN fs
    /\ fs' = [p \in DOMAIN fs \ {path} |-> fs[p]]
    /\ op' = [name |-> "delete", path |-> path]
    /\ UNCHANGED <<backups, clock, snap, created>>

\* list_backups()
List ==
    /\ Operation
    /\ op' = [name |-> "list", ret |-> list_backups(backups)]
    /\ UNCHANGED <<backups, clock, fs, snap, created>>

\* get_backup_info(timestamp)
Info(timestamp) ==
    /\ Operation
    /\ op' = [name |-> "info", id |-> timestamp, ret |-> get_backup_info(backups, timestamp)]
    /\ UNCHANGED <<backups, clock, fs, snap, created>>

\* restore_backup(timestamp, file_path, restore_root=root)
Restore(timestamp, file_path, root) ==
    /\ Operation
    /\ LET done == restore_backup(backups, fs, timestamp, file_path, root)
       IN  /\ fs' = done.files
           /\ op' = [name |-> "restore", id |-> timestamp, file |-> file_path,
                     root |-> root, ret |-> done.ret]
    /\ UNCHANGED <<backups, clock, snap, created>>

\* cleanup_old_backups(keep_count)
Cleanup(keep_count) ==
    /\ Operation
    /\ LET done == cleanup_old_backups(backups, keep_count)
       IN  /\ backups' = done.store
           /\ op' = [name |-> "cleanup", keep |-> keep_count, ret |-> done.removed]
           /\ snap' = IF snap.id \in DOMAIN done.store THEN snap ELSE NoSnap
           /\ created' = SelectSeq(created, LAMBDA id : id \in DOMAIN done.store)
    /\ UNCHANGED <<clock, fs>>

NextBackup ==
    \/ \E path \in Originals : Backup(path)
    \/ \E path \in Originals, content \in Contents : Modify(path, content)
    \/ \E path \in Originals : Delete(path)
    \/ List
    \/ \E t \in Stamps : Info(t)
    \/ \E t \in Stamps, f \in RelPaths \cup {NoFile}, root \in RestoreRoots :
          Restore(t, f, root)
    \/ \E k \in KeepCounts : Cleanup(k)

SpecBackup == InitBackup /\ [][NextBackup]_vars

----------------------------------------------------------------------------
(* fuzzy_match.py: FuzzyClientMatcher *)

\* str.strip() on the queries that occur
strip(s) ==
    CASE s = "   "      -> ""
      [] s = " vscode " -> "vscode"
      [] OTHER          -> s

\* str.replace(" ", "") on the names that occur
no_spaces(s) ==
    CASE s = "claude code" -> "claudecode"
      [] s = "vs code"     -> "vscode"
      [] OTHER             -> s

\* str.replace(" ", "-") on the names that occur
hyphens(s) ==
    CASE s = "claude code" -> "claude-code"
      [] s = "vs code"     -> "vs-code"
      [] OTHER             -> s

\* a dict of lists in insertion order: the clients with their keywords
DEFAULT_KEYWORDS ==
    << [client |-> "codex", keywords |-> <<"codex", "openai", "codex cli">>],
       [client |-> "claude-code",
        keywords |-> <<"claude", "claude-code", "claude code", "anthropic">>],
       [client |-> "claude-desktop",
        keywords |-> <<"claude-desktop", "claude desktop", "anthropic desktop">>],
       [client |-> "cursor", keywords |-> <<"cursor", "cursor ide">>],
       [client |-> "gemini-cli", keywords |-> <<"gemini", "gemini cli", "google", "gcloud">>],
       [client |-> "copilot-cli", keywords |-> <<"copilot", "copilot cli", "github", "gh">>],
       [client |-> "vscode-user",
        keywords |-> <<"vscode", "vs code", "vs-code", "code", "visual studio code">>],
       [client |-> "cline", keywords |-> <<"cline">>],
       [client |-> "roo", keywords |-> <<"roo", "roo-cline">>],
       [client |-> "kilocode-cli", keywords |-> <<"kilocode", "kilo", "kilocode cli">>],
       [client |-> "continue", keywords |-> <<"continue">>] >>

\* query in self._keywords
has_client(index, client_id) == \E i \in 1..Len(index) : index[i].client = client_id

\* list.append(item) under "if item not in list"
append_new(list, item) ==
    IF \E i \in 1..Len(list) : list[i] = item THEN list ELSE Append(list, item)

\* the body of the loop over client_definitions.clients.items()
add_client(index, client_id, name) ==
    LET entered == IF has_client(index, client_id)
                   THEN index
                   ELSE Append(index, [client |-> client_id, keywords |-> <<>>])
        at      == CHOOSE i \in 1..Len(entered) : entered[i].client = client_id
        named   == append_new(entered[at].keywords, lower(name))
        joined  == append_new(named, no_spaces(lower(name)))
        dashed  == append_new(joined, hyphens(lower(name)))
    IN  [entered EXCEPT ![at].keywords = dashed]

RECURSIVE add_clients(_, _)
add_clients(index, clients) ==
    IF clients = <<>>
    THEN index
    ELSE add_clients(add_client(index, Head(clients).client, Head(clients).name),
                     Tail(clients))

\* _build_keyword_index: the defaults, then the names of the definitions
build_keyword_index(clients) == add_clients(DEFAULT_KEYWORDS, clients)

\* all_keywords: the (keyword, client_id) pairs, client by client
RECURSIVE flatten(_)
flatten(index) ==
    IF index = <<>>
    THEN <<>>
    ELSE [i \in 1..Len(Head(index).keywords) |->
             [keyword |-> Head(index).keywords[i], client |-> Head(index).client]]
         \o flatten(Tail(index))

\* get_keywords
get_keywords(index, client_id) ==
    IF has_client(index, client_id)
    THEN index[CHOOSE i \in 1..Len(index) : index[i].client = client_id].keywords
    ELSE <<>>

\* the keywords whose score for the query is left open
Probes == {"claude", "claude code", "claude desktop", "vscode", "cline"}

\* fuzz.WRatio(q, keyword) under the default processor, as an integer of
\* 0..100: 0 for a query without a letter or digit, 100 for equal strings
WRatio(q, keyword) ==
    IF q = "" THEN 0
    ELSE IF q = keyword THEN 100
    ELSE IF keyword \in DOMAIN wratio THEN wratio[keyword]
    ELSE 0

\* the number of matches process.extract returns
extract_count(n, limit) == IF limit <= 0 THEN 0 ELSE IF limit < n THEN limit ELSE n

\* process.extract that returns the choices of equal score last one first
extract_unstable(q, all, limit) ==
    LET n == Len(all)
        before(j, i) ==
            \/ WRatio(q, all[j].keyword) > WRatio(q, all[i].keyword)
            \/ WRatio(q, all[j].keyword) = WRatio(q, all[i].keyword) /\ j > i
        at(r) == CHOOSE i \in 1..n : Cardinality({j \in 1..n : before(j, i)}) = r - 1
    IN  [r \in 1..extract_count(n, limit) |->
            LET i == at(r)
            IN  [keyword |-> all[i].keyword, score |-> WRatio(q, all[i].keyword)]]

\* process.extract(q, keyword_list, scorer=fuzz.WRatio, limit=limit): the
\* limit best (keyword, score) pairs, best first, choices of equal score in
\* the order of the list
extract(q, all, limit) ==
    LET n == Len(all)
        before(j, i) ==
            \/ WRatio(q, all[j].keyword) > WRatio(q, all[i].keyword)
            \/ WRatio(q, all[j].keyword) = WRatio(q, all[i].keyword) /\ j < i
        at(r) == CHOOSE i \in 1..n : Cardinality({j \in 1..n : before(j, i)}) = r - 1
    IN  [r \in 1..extract_count(n, limit) |->
            LET i == at(r)
            IN  [keyword |-> all[i].keyword, score |-> WRatio(q, all[i].keyword)]]

\* the client of the first pair with that keyword
first_client(all, keyword) ==
    all[CHOOSE i \in 1..Len(all) :
           /\ all[i].keyword = keyword
           /\ \A j \in 1..(i - 1) : all[j].keyword # keyword].client

NoMatch == [client |-> NoClient, score |-> 0]

\* best_match that takes every match, whatever the threshold
RECURSIVE best_match_any(_, _, _, _)
best_match_any(matches, all, threshold, best) ==
    IF matches = <<>>
    THEN best
    ELSE best_match_any(Tail(matches), all, threshold,
             IF Head(matches).score > best.score
             THEN [client |-> first_client(all, Head(matches).keyword),
                   score  |-> Head(matches).score]
             ELSE best)

\* the loop over the matches: best_client and best_score
RECURSIVE best_match(_, _, _, _)
best_match(matches, all, threshold, best) ==
    IF matches = <<>>
    THEN best
    ELSE best_match(Tail(matches), all, threshold,
             IF Head(matches).score >= threshold /\ Head(matches).score > best.score
             THEN [client |-> first_client(all, Head(matches).keyword),
                   score  |-> Head(matches).score]
             ELSE best)

\* limit=5 of the extract in find_client
FindLimit == 5

\* find_client that looks at the keywords before the client ids
find_client_keyword_first(index, raw, threshold) ==
    LET q   == strip(lower(raw))
        all == flatten(index)
    IN  IF raw = "" THEN NoMatch
        ELSE IF \E i \in 1..Len(all) : q = lower(all[i].keyword)
        THEN [client |-> first_client(all, q), score |-> 100]
        ELSE IF has_client(index, q) THEN [client |-> q, score |-> 100]
        ELSE best_match(extract(q, all, FindLimit), all, threshold, NoMatch)

\* find_client(query, threshold): (client_id, score)
find_client(index, raw, threshold) ==
    LET q   == strip(lower(raw))
        all == flatten(index)
    IN  IF raw = "" THEN NoMatch
        ELSE IF has_client(index, q) THEN [client |-> q, score |-> 100]
        ELSE IF \E i \in 1..Len(all) : q = lower(all[i].keyword)
        THEN [client |->
                 all[CHOOSE i \in 1..Len(all) :
                        /\ q = lower(all[i].keyword)
                        /\ \A j \in 1..(i - 1) : q # lower(all[j].keyword)].client,
              score |-> 100]
        ELSE best_match(extract(q, all, FindLimit), all, threshold, NoMatch)

\* the loop of find_clients over the matches
RECURSIVE collect(_, _, _, _, _)
collect(matches, all, limit, threshold, results) ==
    IF matches = <<>>
    THEN results
    ELSE LET m     == Head(matches)
             seen  == {results[i].client : i \in 1..Len(results)}
             fresh == {i \in 1..Len(all) :
                          all[i].keyword = m.keyword /\ all[i].client \notin seen}
             first == CHOOSE i \in fresh : \A j \in fresh : i <= j
             next  == IF fresh = {}
                      THEN results
                      ELSE Append(results, [client  |-> all[first].client,
                                            keyword |-> m.keyword,
                                            score   |-> m.score])
         IN  IF m.score < threshold
             THEN collect(Tail(matches), all, limit, threshold, results)
             ELSE IF Len(next) >= limit
             THEN next
             ELSE collect(Tail(matches), all, limit, threshold, next)

\* find_clients that does not remember the clients it has seen
find_clients_repeating(index, raw, limit, threshold) ==
    LET q       == strip(lower(raw))
        all     == flatten(index)
        matches == extract(q, all, limit * 2)
        kept    == SelectSeq(matches, LAMBDA m : m.score >= threshold)
    IN  IF raw = "" THEN <<>>
        ELSE [i \in 1..extract_count(Len(kept), limit) |->
                 [client  |-> first_client(all, kept[i].keyword),
                  keyword |-> kept[i].keyword,
                  score   |-> kept[i].score]]

\* find_clients(query, limit, threshold): (client_id, matched_keyword, score)
find_clients(index, raw, limit, threshold) ==
    LET q   == strip(lower(raw))
        all == flatten(index)
    IN  IF raw = "" THEN <<>>
        ELSE collect(extract(q, all, limit * 2), all, limit, threshold, <<>>)

----------------------------------------------------------------------------
(* The matcher built with or without client definitions, asked for one     *)
(* query with any threshold and limit                                      *)

\* client_definitions: none, or two clients of which one is named as a
\* built-in client and the other has a built-in keyword as its id
ClientDefinitions ==
    { <<>>,
      << [client |-> "claude-code", name |-> "Claude Code"],
         [client |-> "vscode", name |-> "VS Code"] >> }

Queries == {"", "   ", "codex", "CLAUDE", " VSCode ", "claud", "zzz"}

\* the queries that resemble keywords without being one: their scores are
\* left open; the other queries score 0 with every keyword they differ from
Misspelt == {"claud"}

Scores == {0, 60, 90}

Thresholds == {0, 60, 101}

Limits == (-1)..MaxLimit

InitFuzzy ==
    /\ TomlParked
    /\ SyncParked
    /\ StoreParked
    /\ is_windows = FALSE
    /\ definitions \in ClientDefinitions
    /\ raw_query \in Queries
    /\ wratio \in IF raw_query \in Misspelt
                  THEN [Probes -> Scores]
                  ELSE {[k \in Probes |-> 0]}
    /\ found = [name |-> "none"]

\* find_client(query, threshold) on the matcher, once
Find(threshold) ==
    /\ found.name = "none"
    /\ found' = [name |-> "find", threshold |-> threshold,
                 ret |-> find_client(build_keyword_index(definitions), raw_query, threshold)]
    /\ UNCHANGED <<is_windows, tomlVars, syncVars, storeVars, definitions, raw_query, wratio>>

\* find_clients(query, limit, threshold) on the matcher, once
FindMany(limit, threshold) ==
    /\ found.name = "none"
    /\ found' = [name |-> "find_clients", limit |-> limit, threshold |-> threshold,
                 ret |-> find_clients(build_keyword_index(definitions), raw_query, limit,
                                      threshold)]
    /\ UNCHANGED <<is_windows, tomlVars, syncVars, storeVars, definitions, raw_query, wratio>>

NextFuzzy ==
    \/ \E t \in Thresholds : Find(t)
    \/ \E l \in Limits, t \in Thresholds : FindMany(l, t)

SpecFuzzy == InitFuzzy /\ [][NextFuzzy]_vars

----------------------------------------------------------------------------
(* Claims about the sync *)

Range(seq) == {seq[i] : i \in 1..Len(seq)}

Rank(n) == CHOOSE i \in 1..Len(NameOrder) : NameOrder[i] = n

\* strictly ascending, hence without repetition
Ascending(seq) == \A i, j \in 1..Len(seq) : i < j => Rank(seq[i]) < Rank(seq[j])

Returned == pc = "idle" /\ calls > 0

\* the last call was by keyword and a keyword led to no path
Unresolved ==
    /\ result.kind = "failure"
    /\ result.error \in {"Unknown source keyword", "Unknown target keyword",
                         "Could not determine path for source",
                         "Could not determine path for target"}

\* C1: the reported plan of a sync is toAdd = names(source) - names(target),
\* toRemove = names(target) - names(source), toUpdate = the common names whose
\* entries differ; with the unchanged names the three sets are pairwise
\* disjoint and cover names(source) U names(target).
C1_PlanPartition ==
    (Returned /\ result.kind \in {"dry", "success"}) =>
        LET S         == DOMAIN source_servers
            T         == DOMAIN target_servers
            toAdd     == Range(result.add)
            toUpdate  == Range(result.update)
            toRemove  == Range(result.remove)
            unchanged == {n \in S \cap T : source_servers[n] = target_servers[n]}
        IN  /\ toAdd = S \ T
            /\ toRemove = T \ S
            /\ toUpdate = {n \in S \cap T : source_servers[n] # target_servers[n]}
            /\ toAdd \cap toUpdate = {}
            /\ toAdd \cap toRemove = {}
            /\ toUpdate \cap toRemove = {}
            /\ unchanged \cap (toAdd \cup toUpdate \cup toRemove) = {}
            /\ toAdd \cup toUpdate \cup toRemove \cup unchanged = S \cup T

\* a plan with one name to update and one unchanged
C1_Witness ==
    /\ Returned
    /\ result.kind = "dry"
    /\ result.update = <<"a">>
    /\ result.add = <<>>
    /\ result.remove = <<>>
    /\ DOMAIN source_servers = {"a", "b"}
    /\ DOMAIN target_servers = {"a", "b"}

C3_NoServers ==
    (/\ Returned
     /\ ~Unresolved
     /\ srcFile.kind \in {"doc", "malformed"}
     /\ DOMAIN srcFile.servers = {}) =>
        /\ result.kind = "failure"
        /\ result.error = "No MCP servers found in source"
        /\ tgtFile = tgtBefore
        /\ backups = backupsBefore

\* a non-dry-run sync of an empty source onto an existing target has returned
C3_Witness ==
    /\ Returned
    /\ ~dry_run
    /\ srcFile.kind = "doc"
    /\ DOMAIN srcFile.servers = {}
    /\ tgtFile.kind = "doc"
    /\ DOMAIN tgtFile.servers = {"a", "b"}
    /\ result.error = "No MCP servers found in source"

\* C4: a dry run on a source with at least one server returns success with
\* the sorted add / update / remove lists and their total, and merges nothing,
\* backs up nothing and writes nothing.
C4_DryRun ==
    /\ dry_run => pc = "idle"
    /\ (/\ Returned
        /\ ~Unresolved
        /\ dry_run
        /\ srcFile.kind = "doc"
        /\ DOMAIN srcFile.servers # {}) =>
          /\ result.kind = "dry"
          /\ Ascending(result.add)
          /\ Ascending(result.update)
          /\ Ascending(result.remove)
          /\ result.total = Len(result.add) + Len(result.update) + Len(result.remove)
          /\ result.backup.id = -1
          /\ new_servers = <<>>
          /\ backup_outcome = "none"
          /\ tgtFile = tgtBefore
          /\ backups = backupsBefore

\* C5: when the sync reaches the write step and the target exists, the backup
\* has been requested and, unless the copy failed, the snapshot holds the
\* target's content, which is still unwritten; the success result carries
\* that reference.  When the target does not exist no backup is requested and
\* the reference is absent.
C5_BackupBeforeWrite ==
    /\ pc = "write" =>
          /\ tgtFile = tgtBefore
          /\ IF tgtFile.kind # "missing"
             THEN /\ backup_outcome \in {"copied", "error"}
                  /\ backup_outcome = "copied" =>
                        /\ backup_path.id \in DOMAIN backups
                        /\ backup_path.rel \in DOMAIN backups[backup_path.id]
                        /\ backups[backup_path.id][backup_path.rel] = tgtFile
             ELSE /\ backup_outcome = "none"
                  /\ backup_path.id = -1
                  /\ backups = backupsBefore
    /\ (Returned /\ result.kind = "success") =>
          IF tgtBefore.kind # "missing"
          THEN backup_outcome = "copied" =>
                  /\ result.backup.id \in DOMAIN backups
                  /\ result.backup.rel \in DOMAIN backups[result.backup.id]
                  /\ backups[result.backup.id][result.backup.rel] = tgtBefore
          ELSE /\ result.backup.id = -1
               /\ backups = backupsBefore

\* the snapshot of an existing target is in the store and the target is not
\* yet written
C5_Witness ==
    /\ pc = "write"
    /\ backup_outcome = "copied"
    /\ tgtFile.kind = "doc"
    /\ DOMAIN tgtFile.servers = {"a"}
    /\ backups[backup_path.id][backup_path.rel] = tgtFile
    /\ "b" \in DOMAIN source_servers

----------------------------------------------------------------------------
(* Claims about the adapter *)

\* the command names and mode switches of the process launcher
IsLauncher(c) == c \in {"cmd", "cmd.exe", "CMD", "CMD.EXE"}
IsModeSwitch(a) == a \in {"/c", "/k", "/C", "/K"}
Bootstrap == {"SystemRoot", "PROGRAMFILES", "SystemDrive"}

\* the timeout of a canonical entry, NoneT when it has none
TimeoutOf(e) == IF "timeout_ms" \in DOMAIN e THEN e["timeout_ms"] ELSE NoneT

\* the recognized fields of a canonical entry
Recognized(e) ==
    [command |-> e.command, args |-> e.args, env |-> e.env, timeout |-> TimeoutOf(e)]

HasFlag(args) == \E i \in 1..Len(args) : args[i] = "-y"

\* C6 as stated: reading back a written config yields the config, on every
\* recognized field (command, args, env, timeout) of every server.
C6_RoundTripEqual ==
    tstage = "readback" =>
        /\ DOMAIN readCfg = DOMAIN cfgIn
        /\ \A n \in DOMAIN cfgIn : Recognized(readCfg[n]) = Recognized(cfgIn[n])

\* C6 amended: reading back a written config yields, for every server, the
\* env less the three bootstrap variables, the timeout when a non-zero one was
\* supplied and 60000 otherwise, and (unless the command is the launcher on a
\* platform that does not require it) the same command and the same args, with
\* -y prepended when the command is npx and the args lack it.
C6_RoundTripNormalised ==
    tstage = "readback" =>
        /\ DOMAIN readCfg = DOMAIN cfgIn
        /\ \A n \in DOMAIN cfgIn :
              LET c == cfgIn[n]
                  r == readCfg[n]
              IN  /\ DOMAIN r.env = DOMAIN c.env \ Bootstrap
                  /\ \A k \in DOMAIN r.env : r.env[k] = c.env[k]
                  /\ TimeoutOf(r) = IF TimeoutOf(c) \in {NoneT, 0} THEN 60000 ELSE TimeoutOf(c)
                  /\ (is_windows \/ ~IsLauncher(c.command)) =>
                        /\ r.command = c.command
                        /\ r.args = IF c.command = "npx" /\ ~HasFlag(c.args)
                                    THEN <<"-y">> \o c.args
                                    ELSE c.args

\* a config that needs no normalising came back as it was written
C6_Witness ==
    /\ tstage = "readback"
    /\ ServerName \in DOMAIN cfgIn
    /\ cfgIn[ServerName].command = "npx"
    /\ Len(cfgIn[ServerName].args) = 3
    /\ cfgIn[ServerName].args[1] = "-y"
    /\ DOMAIN cfgIn[ServerName].env = {"API_KEY"}
    /\ TimeoutOf(cfgIn[ServerName]) = 5000
    /\ Recognized(readCfg[ServerName]) = Recognized(cfgIn[ServerName])

\* C7: writing, reading back and writing the read-back config again leaves
\* the file as the first write left it.
C7_SecondWriteIdentical ==
    tstage = "rewritten" => codexFile = file1

\* C8 as stated: an entry is unwrapped exactly when its command is the
\* launcher and its args begin with a mode switch followed by the real
\* command; every other entry is passed through unchanged.
WrapperPattern(raw) ==
    /\ IsLauncher(raw.command)
    /\ Len(raw.args) >= 2
    /\ IsModeSwitch(raw.args[1])

C8_UnwrapOnlyPattern ==
    tstage = "read" =>
        \A n \in DOMAIN codexFile.servers :
            LET raw == codexFile.servers[n]
                r   == readCfg[n]
            IN  IF WrapperPattern(raw)
                THEN r.command = raw.args[2] /\ r.args = SubSeq(raw.args, 3, Len(raw.args))
                ELSE r.command = raw.command /\ r.args = raw.args

\* C8 amended: an entry whose command is the launcher and whose args begin
\* with a mode switch followed by the real command is unwrapped to args[1] and
\* args[2..]; an entry whose command is not the launcher is passed through
\* unchanged; a launcher entry with at least two args and no leading mode
\* switch is unwrapped to args[0] and args[1..]; a launcher entry with fewer
\* than two args reads as the empty command with its args unchanged.
C8_UnwrapLauncher ==
    tstage = "read" =>
        \A n \in DOMAIN codexFile.servers :
            LET raw == codexFile.servers[n]
                r   == readCfg[n]
            IN  /\ WrapperPattern(raw) =>
                      r.command = raw.args[2] /\ r.args = SubSeq(raw.args, 3, Len(raw.args))
                /\ ~IsLauncher(raw.command) =>
                      r.command = raw.command /\ r.args = raw.args
                /\ (IsLauncher(raw.command) /\ Len(raw.args) >= 2 /\ ~IsModeSwitch(raw.args[1])) =>
                      r.command = raw.args[1] /\ r.args = SubSeq(raw.args, 2, Len(raw.args))
                /\ (IsLauncher(raw.command) /\ Len(raw.args) < 2) =>
                      r.command = "" /\ r.args = raw.args

\* an upper-case launcher with an upper-case switch was unwrapped
C8_Witness ==
    /\ tstage = "read"
    /\ ServerName \in DOMAIN codexFile.servers
    /\ codexFile.servers[ServerName].command = "CMD.EXE"
    /\ codexFile.servers[ServerName].args = <<"/K", "npx", "-y">>
    /\ readCfg[ServerName].command = "npx"
    /\ readCfg[ServerName].args = <<"-y">>

\* C9: the canonical env read from a file is the file's env without
\* SystemRoot, PROGRAMFILES and SystemDrive; every other variable keeps its
\* value, launcher or not.
C9_EnvStripped ==
    tstage \in {"read", "readback"} =>
        /\ DOMAIN readCfg = DOMAIN codexFile.servers
        /\ \A n \in DOMAIN codexFile.servers :
              LET raw == codexFile.servers[n]
                  r   == readCfg[n]
              IN  /\ DOMAIN r.env = DOMAIN raw.env \ Bootstrap
                  /\ \A k \in DOMAIN r.env : r.env[k] = raw.env[k]

\* a launcher entry with all three bootstrap variables and one other was read
C9_Witness ==
    /\ tstage = "read"
    /\ ServerName \in DOMAIN codexFile.servers
    /\ IsLauncher(codexFile.servers[ServerName].command)
    /\ DOMAIN codexFile.servers[ServerName].env = Bootstrap \cup {"API_KEY"}
    /\ readCfg[ServerName].env = [API_KEY |-> UserValue]

\* C10: on Windows every written server has command cmd, args /c, the real
\* command, then the real args in order (after the -y that the npx rule may
\* put in front of them), and an env with SystemRoot and PROGRAMFILES, each
\* the user's value when supplied and the default otherwise, and every other
\* user entry unchanged.
C10_WindowsWrite ==
    (tstage = "written" /\ is_windows) =>
        /\ DOMAIN codexFile.servers = DOMAIN cfgIn
        /\ \A n \in DOMAIN cfgIn :
              LET c == cfgIn[n]
                  w == codexFile.servers[n]
              IN  /\ w.command = "cmd"
                  /\ Len(w.args) >= 2
                  /\ w.args[1] = "/c"
                  /\ w.args[2] = c.command
                  /\ SubSeq(w.args, 3, Len(w.args)) \in {c.args, <<"-y">> \o c.args}
                  /\ DOMAIN w.env = DOMAIN c.env \cup {"SystemRoot", "PROGRAMFILES"}
                  /\ w.env["SystemRoot"] =
                        IF "SystemRoot" \in DOMAIN c.env THEN c.env["SystemRoot"] ELSE "C:\\Windows"
                  /\ w.env["PROGRAMFILES"] =
                        IF "PROGRAMFILES" \in DOMAIN c.env THEN c.env["PROGRAMFILES"]
                        ELSE "C:\\Program Files"
                  /\ \A k \in DOMAIN c.env : w.env[k] = c.env[k]

\* a server with its own SystemRoot, no PROGRAMFILES and one more variable
\* was written on Windows
C10_Witness ==
    /\ tstage = "written"
    /\ is_windows
    /\ ServerName \in DOMAIN cfgIn
    /\ cfgIn[ServerName].command = "node"
    /\ Len(cfgIn[ServerName].args) = 2
    /\ DOMAIN cfgIn[ServerName].env = {"SystemRoot", "API_KEY"}
    /\ codexFile.servers[ServerName].env["SystemRoot"] = UserValue
    /\ codexFile.servers[ServerName].env["PROGRAMFILES"] = "C:\\Program Files"

\* the args a written entry hands to the real command
RealArgs(w) == IF is_windows THEN SubSeq(w.args, 3, Len(w.args)) ELSE w.args

\* C11: on both platforms, the real args written for a server whose command
\* is npx and whose args lack -y are -y followed by the canonical args; when
\* -y is already among the args, or the command is not npx, they are the
\* canonical args unchanged.
C11_ConfirmFlag ==
    tstage = "written" =>
        \A n \in DOMAIN cfgIn :
            LET c == cfgIn[n]
                w == codexFile.servers[n]
            IN  RealArgs(w) = IF c.command = "npx" /\ ~HasFlag(c.args)
                              THEN <<"-y">> \o c.args
                              ELSE c.args

\* the direct form of an npx server without the flag was written with it
C11_Witness ==
    /\ tstage = "written"
    /\ ~is_windows
    /\ ServerName \in DOMAIN cfgIn
    /\ cfgIn[ServerName].command = "npx"
    /\ cfgIn[ServerName].args = <<"--stdio", "npx">>
    /\ codexFile.servers[ServerName].args = <<"-y", "--stdio", "npx">>

\* C12: a write with preservation to a TOML file that exists (and parses)
\* leaves the other top-level sections as they were, and the names in the
\* servers table afterwards are exactly the names of the config written:
\* servers of the file that the config does not name are deleted.
C12_PreservingWrite ==
    [][(codexFile.kind = "doc" /\ tstage' \in {"written", "rewritten"}) =>
          /\ codexFile'.kind = "doc"
          /\ codexFile'.extra = codexFile.extra
          /\ DOMAIN codexFile'.servers =
                DOMAIN (IF tstage' = "written" THEN cfgIn ELSE readCfg)]_vars

\* the file had other sections and a server the config does not name; the
\* sections are still there and the server is gone
C12_Witness ==
    /\ tstage = "written"
    /\ codexFile.extra
    /\ DOMAIN cfgIn = {ServerName}
    /\ DOMAIN codexFile.servers = {ServerName}
    /\ StaleName \notin DOMAIN codexFile.servers

----------------------------------------------------------------------------
(* More claims about the sync *)

C14_NeverRaises == result.kind # "raised"

\* C15: a missing or malformed file reads as the empty config without
\* raising; so a sync whose target is missing or malformed (text that does not
\* parse, or bytes that do not decode) reports every source name to add and
\* nothing to update or remove.
C15_MalformedReadsEmpty ==
    (/\ Returned
     /\ ~Unresolved
     /\ srcFile.kind = "doc"
     /\ DOMAIN srcFile.servers # {}
     /\ tgtBefore.kind \in {"missing", "malformed", "undecodable"}) =>
        /\ result.kind # "raised"
        /\ target_servers = <<>>
        /\ result.kind \in {"dry", "success"} =>
              /\ Range(result.add) = DOMAIN srcFile.servers
              /\ result.update = <<>>
              /\ result.remove = <<>>

\* the snapshots of a store: the directories that hold at least one file
Snapshots(store) == {id \in DOMAIN store : DOMAIN store[id] # {}}

\* C16: when the backup fails while copying, it yields no reference and no
\* snapshot and raises nothing; the sync goes on to the write and, unless the
\* write itself fails, returns success without a backup reference, the
\* target holding the merged names.
C16_BackupFailureTolerated ==
    /\ backup_outcome = "error" =>
          /\ pc \in {"write", "idle"}
          /\ backup_path.id = -1
          /\ Snapshots(backups) = Snapshots(backupsBefore)
          /\ \A id \in Snapshots(backups) : backups[id] = backupsBefore[id]
    /\ (Returned /\ backup_outcome = "error") =>
          /\ result.kind \in {"success", "failure"}
          /\ result.kind = "failure" =>
                result.error = "Failed to write target configuration"
          /\ result.kind = "success" =>
                /\ result.backup.id = -1
                /\ tgtFile.kind = "doc"
                /\ DOMAIN tgtFile.servers =
                      DOMAIN source_servers \cup DOMAIN target_servers

\* the backup of an existing target failed and the target was written
C16_Witness ==
    /\ Returned
    /\ backup_outcome = "error"
    /\ result.kind = "success"
    /\ result.backup.id = -1
    /\ tgtBefore.kind = "doc"
    /\ DOMAIN tgtBefore.servers = {"a"}
    /\ DOMAIN tgtFile.servers = {"a", "b"}

\* a keyword that names no client
UnknownKeyword(kw) == kw \notin {"src", "tgt", "nop"}

\* the call that has ended read no config file, wrote none and made no backup
NothingTouched ==
    /\ files_read = {}
    /\ source_servers = <<>>
    /\ target_servers = <<>>
    /\ tgtFile = tgtBefore
    /\ backups = backupsBefore

\* C17: a sync by keyword whose source keyword names no client fails with
\* the unknown-source error, whatever the target keyword; one whose target
\* keyword alone names no client fails with the unknown-target error; a sync,
\* by keyword or by path, whose source file does not exist fails with the
\* not-found error.  In all three no config file is read or written and no
\* backup is made.
C17_EarlyFailures ==
    /\ (keywords # <<>> /\ UnknownKeyword(keywords[1])) =>
          /\ pc = "idle"
          /\ result.kind = "failure"
          /\ result.error = "Unknown source keyword"
          /\ NothingTouched
    /\ (keywords # <<>> /\ ~UnknownKeyword(keywords[1]) /\ UnknownKeyword(keywords[2])) =>
          /\ pc = "idle"
          /\ result.kind = "failure"
          /\ result.error = "Unknown target keyword"
          /\ NothingTouched
    /\ (calls > 0 /\ keywords \in {<<>>, <<"src", "tgt">>} /\ srcFile.kind = "missing") =>
          /\ pc = "idle"
          /\ result.kind = "failure"
          /\ result.error = "Source configuration not found"
          /\ NothingTouched

\* a sync by keyword onto an existing target has failed on its source keyword
C17_Witness ==
    /\ Returned
    /\ ~dry_run
    /\ keywords = <<"zzz", "zzz">>
    /\ result.kind = "failure"
    /\ result.error = "Unknown source keyword"
    /\ files_read = {}
    /\ srcFile.kind = "doc"
    /\ tgtFile.kind = "doc"
    /\ tgtFile = tgtBefore
    /\ backups = <<>>

\* C27: every server entry written to TOML carries a startup-timeout field;
\* its value is the canonical entry's timeout whenever one was supplied (for
\* any integer value, including 0) and 60000 only when none was supplied.
C27_TimeoutWritten ==
    tstage = "written" =>
        \A n \in DOMAIN cfgIn :
            /\ n \in DOMAIN codexFile.servers
            /\ "startup_timeout_ms" \in DOMAIN codexFile.servers[n]
            /\ codexFile.servers[n]["startup_timeout_ms"] =
                  IF TimeoutOf(cfgIn[n]) # NoneT THEN TimeoutOf(cfgIn[n]) ELSE 60000

\* what is read back of a written canonical entry, whatever the platform
ReadBackOf(c) ==
    LET args == IF c.command = "npx" /\ ~HasFlag(c.args) THEN <<"-y">> \o c.args ELSE c.args
        base == [command    |-> c.command,
                 args       |-> args,
                 env        |-> [k \in DOMAIN c.env \ Bootstrap |-> c.env[k]],
                 timeout_ms |-> IF TimeoutOf(c) \in {NoneT, 0} THEN 60000 ELSE TimeoutOf(c)]
    IN  IF \E i \in 1..Len(args) : args[i] = "--stdio"
        THEN base @@ [type |-> "stdio"]
        ELSE base

\* C30: for every canonical server entry whose command is not the launcher,
\* the canonical entry read back from a TOML file written on a platform that
\* requires the launcher equals the one read back from a TOML file written on
\* a platform that does not: on either platform it is the same function of
\* the entry (command, args, env, timeout and inferred type).
C30_ReadBackSameOnBothPlatforms ==
    tstage = "readback" =>
        \A n \in DOMAIN cfgIn :
            ~IsLauncher(cfgIn[n].command) =>
                /\ n \in DOMAIN readCfg
                /\ readCfg[n] = ReadBackOf(cfgIn[n])

\* on the platform that requires the launcher an npx entry with user and
\* bootstrap variables and the --stdio argument was wrapped and written, and
\* came back unwrapped, with the user variable only, typed stdio
C30_Witness ==
    /\ tstage = "readback"
    /\ is_windows
    /\ codexFile.servers[ServerName].command = "cmd"
    /\ cfgIn[ServerName].command = "npx"
    /\ cfgIn[ServerName].args = <<"--stdio">>
    /\ DOMAIN cfgIn[ServerName].env = {"API_KEY", "SystemRoot"}
    /\ readCfg[ServerName] =
          [command |-> "npx", args |-> <<"-y", "--stdio">>, env |-> [API_KEY |-> "user"],
           timeout_ms |-> 60000, type |-> "stdio"]

----------------------------------------------------------------------------
(* Claims about the backup store *)

\* C18: over any sequence of backup, list, restore, info and cleanup, a
\* backup that succeeds creates a snapshot whose identifier no snapshot had
\* before, no operation changes the files or the content of a snapshot that
\* exists, and a snapshot disappears only through cleanup.
C18_SnapshotsImmutable ==
    /\ (op.name = "backup" /\ op.ret.id # -1) =>
          op.ret.id \notin Snapshots(backupsBefore)
    /\ \A id \in Snapshots(backupsBefore) :
          /\ id \in DOMAIN backups => backups[id] = backupsBefore[id]
          /\ id \notin DOMAIN backups => op.name = "cleanup"

Min(a, b) == IF a <= b THEN a ELSE b

\* the n greatest identifiers of S
MostRecent(S, n) == {id \in S : Cardinality({j \in S : j > id}) < n}

\* what the claim says of a cleanup with keep = n
CleanupLeaves(n) ==
    LET prior == Snapshots(backupsBefore)
        kept  == Min(n, Cardinality(prior))
    IN  /\ Cardinality(Snapshots(backups)) = kept
        /\ Snapshots(backups) = MostRecent(prior, n)
        /\ \A id \in Snapshots(backups) : backups[id] = backupsBefore[id]
        /\ op.ret = Cardinality(prior) - kept

\* C19 as stated: for every integer keep = N, cleanup leaves exactly
\* min(N, priorCount) snapshots, the N most recent, unchanged, and returns
\* priorCount - min(N, priorCount).
C19_CleanupAnyKeep ==
    op.name = "cleanup" => CleanupLeaves(op.keep)

\* C19 amended: for every integer keep = N >= 0, cleanup leaves exactly
\* min(N, priorCount) snapshots, the N most recent, unchanged, and returns
\* priorCount - min(N, priorCount).
C19_CleanupNonNegativeKeep ==
    (op.name = "cleanup" /\ op.keep >= 0) => CleanupLeaves(op.keep)

\* of two snapshots a cleanup with keep = 1 removed the older
C19_Witness ==
    /\ op.name = "cleanup"
    /\ op.keep = 1
    /\ Snapshots(backupsBefore) = {0, 1}
    /\ Snapshots(backups) = {1}
    /\ op.ret = 1

\* C20: after a file with content c was backed up into snapshot id under
\* rel, and however the original was changed or deleted since, restoring
\* (id, rel) into a root makes root/rel hold c and returns that path;
\* restoring the whole snapshot does so for every file in it.
C20_RestoreContent ==
    (/\ op.name = "restore"
     /\ snap.id # -1
     /\ op.id = snap.id
     /\ snap.id \in DOMAIN backups) =>
        /\ op.file = snap.rel =>
              /\ op.ret.kind = "file"
              /\ op.ret.path = op.root \o snap.rel
              /\ op.root \o snap.rel \in DOMAIN fs
              /\ fs[op.root \o snap.rel] = snap.content
        /\ op.file = <<>> =>
              /\ op.ret.kind = "dir"
              /\ op.root \o snap.rel \in DOMAIN fs
              /\ fs[op.root \o snap.rel] = snap.content
              /\ \A r \in DOMAIN backups[snap.id] :
                    /\ op.root \o r \in DOMAIN fs
                    /\ fs[op.root \o r] = backups[snap.id][r]

\* the file under the home directory was backed up with c1 and changed to
\* c2; the restore into another root brought c1 back under the same
\* relative path
C20_Witness ==
    /\ op.name = "restore"
    /\ op.id = snap.id
    /\ op.file = <<".cursor", "mcp.json">>
    /\ op.root = <<"restore">>
    /\ snap.content = "c1"
    /\ op.ret.kind = "file"
    /\ <<"home", ".cursor", "mcp.json">> \in DOMAIN fs
    /\ fs[<<"home", ".cursor", "mcp.json">>] = "c2"
    /\ fs[<<"restore", ".cursor", "mcp.json">>] = "c1"

\* a backup of a path that is no file, or a restore that names a snapshot
\* directory that does not exist or a file the snapshot does not hold
C21_Step ==
    /\ (op'.name = "backup" /\ op'.path \notin DOMAIN fs) =>
          /\ op'.ret = [id |-> -1, rel |-> <<>>]
          /\ backups' = backups
    /\ (/\ op'.name = "restore"
        /\ \/ op'.id \notin DOMAIN backups
           \/ op'.file # <<>> /\ op'.file \notin DOMAIN backups[op'.id]) =>
          /\ op'.ret = [kind |-> "none"]
          /\ fs' = fs

\* C21: a backup of a path that does not exist yields no snapshot and leaves
\* the backup store unchanged; a restore with a snapshot id that does not
\* exist, or with a named file that the snapshot does not contain, yields
\* nothing and writes no file under the destination root.
C21_NothingFromNothing == [][calls' # calls => C21_Step]_vars

\* only the file under the home directory exists and was backed up; a
\* restore that named another file of that snapshot returned nothing
C21_Witness ==
    /\ op.name = "restore"
    /\ op.id \in Snapshots(backups)
    /\ op.file # <<>>
    /\ op.file \notin DOMAIN backups[op.id]
    /\ op.ret.kind = "none"
    /\ DOMAIN fs = {<<"home", ".cursor", "mcp.json">>}

\* the position of a snapshot in the order of creation
CreatedAt(id) == CHOOSE i \in 1..Len(created) : created[i] = id

\* C22: list returns exactly one entry per snapshot directory that holds at
\* least one file (directories with zero files are omitted), in strictly
\* descending identifier order, and that order is newest-created first: a
\* snapshot created later than another always appears before it.
C22_ListNewestFirst ==
    op.name = "list" =>
        /\ {op.ret[i].timestamp : i \in 1..Len(op.ret)} = Snapshots(backups)
        /\ Len(op.ret) = Cardinality(Snapshots(backups))
        /\ \A i \in 1..Len(op.ret) : op.ret[i].files = DOMAIN backups[op.ret[i].timestamp]
        /\ \A i, j \in 1..Len(op.ret) :
              i < j =>
                 /\ op.ret[i].timestamp > op.ret[j].timestamp
                 /\ CreatedAt(op.ret[i].timestamp) > CreatedAt(op.ret[j].timestamp)

\* C22 without the order of creation: one entry per directory that holds a
\* file, in strictly descending identifier order
C22_ListByIdentifier ==
    op.name = "list" =>
        /\ {op.ret[i].timestamp : i \in 1..Len(op.ret)} = Snapshots(backups)
        /\ Len(op.ret) = Cardinality(Snapshots(backups))
        /\ \A i, j \in 1..Len(op.ret) :
              i < j => op.ret[i].timestamp > op.ret[j].timestamp

----------------------------------------------------------------------------
(* Claims about the client matcher *)

TheIndex == build_keyword_index(definitions)
Pairs == flatten(TheIndex)
Identities == {TheIndex[i].client : i \in 1..Len(TheIndex)}

\* the trimmed lowercased query
Trimmed == strip(lower(raw_query))

\* the positions of the pairs whose keyword equals the query
KeywordHits == {i \in 1..Len(Pairs) : lower(Pairs[i].keyword) = Trimmed}

ExactMatch == Trimmed \in Identities \/ KeywordHits # {}

\* the query went through the scorer
FuzzyPath == found.name = "find" /\ raw_query # "" /\ ~ExactMatch

ScoreAt(i) == WRatio(Trimmed, Pairs[i].keyword)

\* the first position, in the flattened order, of a keyword of the highest
\* score
TopPair ==
    CHOOSE i \in 1..Len(Pairs) :
        /\ \A j \in 1..Len(Pairs) : ScoreAt(j) <= ScoreAt(i)
        /\ \A j \in 1..(i - 1) : ScoreAt(j) < ScoreAt(i)

\* C23: for any threshold, when the trimmed lowercased query equals a client
\* identity of the index, find returns (that identity, 100) even if the
\* string is also a keyword of another client; otherwise, when it equals an
\* indexed keyword case-insensitively, find returns (the first client in
\* index order that owns that keyword, 100); find("codex") is ("codex", 100).
C23_ExactMatchWins ==
    found.name = "find" =>
        /\ Trimmed \in Identities =>
              found.ret = [client |-> Trimmed, score |-> 100]
        /\ (Trimmed \notin Identities /\ KeywordHits # {}) =>
              found.ret = [client |-> Pairs[CHOOSE i \in KeywordHits :
                                               \A j \in KeywordHits : i <= j].client,
                           score  |-> 100]
        /\ raw_query = "codex" => found.ret = [client |-> "codex", score |-> 100]

\* the query names the client vscode of the definitions, which is also a
\* keyword of the built-in client vscode-user before it, and the threshold
\* is above every score
C23_Witness ==
    /\ found.name = "find"
    /\ raw_query = " VSCode "
    /\ found.threshold = 101
    /\ \E i, j \in 1..Len(Pairs) :
          /\ i < j
          /\ Pairs[i] = [keyword |-> "vscode", client |-> "vscode-user"]
          /\ Pairs[j].client = "vscode"
    /\ found.ret = [client |-> "vscode", score |-> 100]

\* C24: find returns (none, 0) when the query is empty after trimming, and
\* whenever the query is not an exact match and no indexed keyword scores at
\* least threshold; a client returned through the fuzzy path has a score of
\* at least threshold; the returned client is none exactly when the returned
\* score is 0.
C24_NoMatchIsNoneZero ==
    found.name = "find" =>
        /\ Trimmed = "" => found.ret = [client |-> "", score |-> 0]
        /\ (~ExactMatch /\ \A i \in 1..Len(Pairs) : ScoreAt(i) < found.threshold) =>
              found.ret = [client |-> "", score |-> 0]
        /\ (FuzzyPath /\ found.ret.client # "") => found.ret.score >= found.threshold
        /\ found.ret.client = "" <=> found.ret.score = 0

\* the best keyword of the misspelt query scores 90, the threshold is above
\* it and nothing is returned
C24_Witness ==
    /\ FuzzyPath
    /\ raw_query = "claud"
    /\ found.threshold = 101
    /\ ScoreAt(TopPair) = 90
    /\ found.ret = [client |-> "", score |-> 0]

\* C25 as stated: on the fuzzy path find returns the client that owns the
\* keyword of the highest score over all indexed keywords, provided that
\* score meets threshold; among keywords of that score, and among the
\* clients of one keyword string, the first in the flattened order wins.
C25_BestKeywordWins ==
    (FuzzyPath /\ ScoreAt(TopPair) >= found.threshold) =>
        found.ret = [client |-> Pairs[TopPair].client, score |-> ScoreAt(TopPair)]

\* C25 amended: on the fuzzy path find returns the client that owns the
\* keyword of the highest score over all indexed keywords, provided that
\* score meets threshold and is above 0; among keywords of that score, and
\* among the clients of one keyword string, the first in the flattened order
\* wins.
C25_BestPositiveKeywordWins ==
    (FuzzyPath /\ ScoreAt(TopPair) >= found.threshold /\ ScoreAt(TopPair) > 0) =>
        found.ret = [client |-> Pairs[TopPair].client, score |-> ScoreAt(TopPair)]

\* a keyword of claude-code and a keyword of claude-desktop tie at 90, the
\* highest score, and the client registered first is returned
C25_Witness ==
    /\ FuzzyPath
    /\ raw_query = "claud"
    /\ found.threshold = 60
    /\ wratio["claude"] = 90
    /\ wratio["claude desktop"] = 90
    /\ found.ret = [client |-> "claude-code", score |-> 90]

\* what the claim says of the list find_clients returned
FindManyContract ==
    LET ret == found.ret
    IN  /\ Len(ret) <= found.limit
        /\ \A i, j \in 1..Len(ret) : i < j =>
              /\ ret[i].client # ret[j].client
              /\ ret[i].score >= ret[j].score
        /\ \A i \in 1..Len(ret) :
              /\ ret[i].score >= found.threshold
              /\ \E k \in 1..Len(Pairs) :
                    Pairs[k] = [keyword |-> ret[i].keyword, client |-> ret[i].client]
        /\ raw_query = "" => ret = <<>>

\* C26 as stated: for every query, limit and threshold, find_clients returns
\* at most limit entries with pairwise distinct client ids, every score is
\* at least threshold, the scores are non-increasing, each matched keyword is
\* an indexed keyword of its entry's client, and an empty query returns an
\* empty list.
C26_FindManyAnyLimit ==
    found.name = "find_clients" => FindManyContract

\* C26 amended: for every query, every limit >= 0 and every threshold,
\* find_clients returns at most limit entries with pairwise distinct client
\* ids, every score is at least threshold, the scores are non-increasing,
\* each matched keyword is an indexed keyword of its entry's client, and an
\* empty query returns an empty list.
C26_FindManyNonNegativeLimit ==
    (found.name = "find_clients" /\ found.limit >= 0) => FindManyContract

\* two clients were found for the misspelt query, the better match first
C26_Witness ==
    /\ found.name = "find_clients"
    /\ raw_query = "claud"
    /\ found.limit = 2
    /\ found.threshold = 60
    /\ Len(found.ret) = 2
    /\ found.ret[1] = [client |-> "claude-desktop", keyword |-> "claude desktop", score |-> 90]
    /\ found.ret[2] = [client |-> "claude-code", keyword |-> "claude", score |-> 60]

----------------------------------------------------------------------------
(* Claims about a sync and what follows it *)

\* C28: after a successful non-dry-run sync from source S to target T, an
\* immediately repeated sync of the same unchanged S to T reports no servers
\* to add and no servers to update, for every combination of source and
\* target format and on either platform.
C28_SyncConverges ==
    (/\ Returned
     /\ previous.kind = "success"
     /\ result.kind \in {"dry", "success"}) =>
        /\ result.add = <<>>
        /\ result.update = <<>>

\* the snapshot the last sync returned was restored after that sync
RestoredAfterSync ==
    /\ pc = "idle"
    /\ result.kind = "success"
    /\ op.name = "restore"
    /\ op.call = calls
    /\ op.id = result.backup.id
    /\ op.root = <<"home">>

\* C29: after a non-dry-run sync overwrote an existing target file and
\* returned a backup reference, restoring that snapshot with the default
\* destination root writes the pre-sync content back to the target's
\* original path, wherever the target file is located.
C29_RestoredInPlace ==
    RestoredAfterSync => tgtFile = tgtBefore

\* C29 for a target under the home directory
C29_RestoredUnderHome ==
    (RestoredAfterSync /\ tgtPath[1] = "home") => tgtFile = tgtBefore

====
